---- MODULE Spec2Model ----
(***************************************************************************)
(* A model of the bug-fix-and-verify tool: the workflow orchestrator       *)
(* (run_claude.py) and the metrics aggregator (extract_metrices.py).       *)
(*                                                                         *)
(* Text is a sequence of tokens.  A token is one character ("=", " ",      *)
(* "\n", ",", a digit, "x" for any other character) or one of the literal  *)
(* words the code searches for ("failed", "passed", "no tests ran", ...).  *)
(*                                                                         *)
(* Spec           orchestrator processes, one after the other in one       *)
(*                working directory, then the aggregator                   *)
(* SpecOneRun     one orchestrator run whose setup commands may fail,      *)
(*                whose test command prints whole sessions and whose       *)
(*                model answers in any shape, then the aggregator          *)
(* SpecOneRunLive one orchestrator run every step of which returns         *)
(* SpecMetrics    the aggregator on a directory with any logs              *)
(* SpecParser     parse_pytest_output on any short text                    *)
(* SpecExtract    extract_patch on any response made of blocks and text    *)
(* SpecCommand    run_command on any command, with and without check       *)
(***************************************************************************)
EXTENDS Integers, Sequences, FiniteSets, TLC

\* ------------------------------------------------------------------ text

NL == "\n"
SP == " "
EQ == "="

Digits == {"0", "1", "2", "3", "4", "5", "6", "7", "8", "9"}

IsDigit(t) == t \in Digits

\* \s of the regular expressions: the model's texts hold two white-space
\* characters, the blank and the newline
IsSpace(t) == t \in {SP, NL}

DigitVal(t) ==
  CASE t = "0" -> 0 [] t = "1" -> 1 [] t = "2" -> 2 [] t = "3" -> 3
    [] t = "4" -> 4 [] t = "5" -> 5 [] t = "6" -> 6 [] t = "7" -> 7
    [] t = "8" -> 8 [] t = "9" -> 9

\* the text `sub` occurs in the text `s` (Python's `sub in s`)
Contains(s, sub) ==
  \E i \in 1..(Len(s) - Len(sub) + 1) : SubSeq(s, i, i + Len(sub) - 1) = sub

\* s[-n:] for n > 0
TailChars(s, n) == IF Len(s) <= n THEN s ELSE SubSeq(s, Len(s) - n + 1, Len(s))

\* s[:n]
HeadChars(s, n) == IF Len(s) <= n THEN s ELSE SubSeq(s, 1, n)

\* the first position >= i of s that holds no token satisfying the run's
\* class: the end of a greedy run that starts at i
RECURSIVE SpaceEnd(_, _)
SpaceEnd(s, i) == IF i <= Len(s) /\ IsSpace(s[i]) THEN SpaceEnd(s, i + 1) ELSE i

RECURSIVE DigitEnd(_, _)
DigitEnd(s, i) == IF i <= Len(s) /\ IsDigit(s[i]) THEN DigitEnd(s, i + 1) ELSE i

RECURSIVE EqEnd(_, _)
EqEnd(s, i) == IF i <= Len(s) /\ s[i] = EQ THEN EqEnd(s, i + 1) ELSE i

\* int() of the digits s[i..j-1]
RECURSIVE IntOf(_, _, _)
IntOf(s, i, j) == IF j <= i THEN 0 ELSE IntOf(s, i, j - 1) * 10 + DigitVal(s[j - 1])

\* ------------------------------------------------- extract_metrices.py

\* a group of the regular expression that took no part in the match
\* (match.group(n) is None)
NoGroup == -1

NoMatch == [ok |-> FALSE, g1 |-> NoGroup, g2 |-> NoGroup]

\* `.*=+` at j: some "=" at or after j with no newline before it
\* (`.` matches every character but the newline)
TailMatches(s, j) ==
  \E p \in j..Len(s) : s[p] = EQ /\ \A q \in j..(p - 1) : s[q] # NL

\* `(\d+)\s+<word>` at j: the position after the word, or 0 when it does not
\* match.  \d+ and \s+ are greedy, and giving back a digit or a blank never
\* helps: the next item would have to start with what was given back.
WordGroupEnd(s, j, word) ==
  LET d == DigitEnd(s, j)
      w == SpaceEnd(s, d)
  IN  IF d > j /\ w > d /\ w <= Len(s) /\ s[w] = word THEN w + 1 ELSE 0

\* `,?` at e: the positions to go on from, the comma taken first
CommaEnds(s, e) == IF e <= Len(s) /\ s[e] = "," THEN <<e + 1, e>> ELSE <<e>>

\* `(?:(\d+)\s+passed,?)?.*=+` at r: the group is tried before it is skipped
Group2AndTail(s, r) ==
  LET e == WordGroupEnd(s, r, "passed")
      v == IntOf(s, r, DigitEnd(s, r))
      ends == CommaEnds(s, e)
  IN  IF e > 0 /\ \E n \in 1..Len(ends) : TailMatches(s, ends[n])
        THEN [ok |-> TRUE, g1 |-> NoGroup, g2 |-> v]
      ELSE IF TailMatches(s, r)
        THEN [ok |-> TRUE, g1 |-> NoGroup, g2 |-> NoGroup]
      ELSE NoMatch

\* backtracking: the first alternative when it matches, else the next one
OrElse(first, next) == IF first.ok THEN first ELSE next

\* `\s*(?:(\d+)\s+passed,?)?.*=+` at j, with \s* ending at r or before:
\* the longest run of blanks is tried first
RECURSIVE Rest2From(_, _, _)
Rest2From(s, j, r) ==
  IF r < j THEN NoMatch
  ELSE OrElse(Group2AndTail(s, r), Rest2From(s, j, r - 1))

Rest2(s, j) == Rest2From(s, j, SpaceEnd(s, j))

\* the first of the positions `ends` from which the rest matches
RECURSIVE FirstRest2(_, _, _)
FirstRest2(s, ends, n) ==
  IF n > Len(ends) THEN NoMatch
  ELSE OrElse(Rest2(s, ends[n]), FirstRest2(s, ends, n + 1))

\* `(?:(\d+)\s+failed,?)?\s*(?:(\d+)\s+passed,?)?.*=+` at j
Rest1(s, j) ==
  LET e == WordGroupEnd(s, j, "failed")
      v == IntOf(s, j, DigitEnd(s, j))
      taken == IF e > 0 THEN FirstRest2(s, CommaEnds(s, e), 1) ELSE NoMatch
  IN  IF taken.ok THEN [taken EXCEPT !.g1 = v] ELSE FirstRest2(s, <<j>>, 1)

\* `\s+` then the rest, with \s+ ending at w or before and holding at least
\* the blank at k
RECURSIVE AfterSpaces(_, _, _)
AfterSpaces(s, k, w) ==
  IF w <= k THEN NoMatch
  ELSE OrElse(Rest1(s, w), AfterSpaces(s, k, w - 1))

\* `=+` from i ending at k or before, then the rest
RECURSIVE AfterEquals(_, _, _)
AfterEquals(s, i, k) ==
  IF k <= i THEN NoMatch
  ELSE OrElse(AfterSpaces(s, k, SpaceEnd(s, k)), AfterEquals(s, i, k - 1))

\* re.search: the match at the leftmost position that has one
RECURSIVE SummarySearch(_, _)
SummarySearch(s, i) ==
  IF i > Len(s) THEN NoMatch
  ELSE OrElse(AfterEquals(s, i, EqEnd(s, i)), SummarySearch(s, i + 1))

NoTestsRan == "no tests ran"

Stats(p, f, e) == [passed |-> p, failed |-> f, error |-> e]

\* the statistics of a match of the summary pattern
MatchStats(match) ==
  Stats(IF match.g2 # NoGroup THEN match.g2 ELSE 0,
        IF match.g1 # NoGroup THEN match.g1 ELSE 0, FALSE)

ParseSummaryFirst(content) ==
  LET match == SummarySearch(content, 1)
  IN  IF match.ok THEN MatchStats(match)
      ELSE IF Contains(content, <<NoTestsRan>>) THEN Stats(0, 0, TRUE)
      ELSE Stats(0, 0, FALSE)

parse_pytest_output(content) ==
  IF Contains(content, <<NoTestsRan>>) THEN Stats(0, 0, TRUE)
  ELSE LET match == SummarySearch(content, 1)
       IN  IF match.ok THEN MatchStats(match) ELSE Stats(0, 0, FALSE)

\* the working directory's artifact files (LOG_FILES, OUTPUT_FILE and the
\* orchestrator's artifacts)
PreLog == "pre_verification.log"
PostLog == "post_verification.log"
AgentLog == "agent.log"
PromptsLog == "prompts.log"
PromptsMd == "prompts.md"
PatchFile == "changes.patch"
RawFile == "agent_response_raw.txt"
ResultFile == "result.json"

FileNames ==
  {PreLog, PostLog, AgentLog, PromptsLog, PromptsMd, PatchFile, RawFile, ResultFile}

\* a file of the working directory: a text (pre/post logs, patch, raw response),
\* a sequence of lines (agent.log, prompts.log), a sequence of sections
\* (prompts.md) or the one document of result.json
Absent == [exists |-> FALSE, data |-> <<>>]
File(d) == [exists |-> TRUE, data |-> d]

EmptyDir == [n \in FileNames |-> Absent]

Reproduced == "success_failure_reproduced"
UnexpectedPass == "unexpected_pass"
Fixed == "success_fixed"
FailedFix == "failed_fix"
MissingLog == "missing_log"
Unknown == "unknown"

\* a log read and parsed: none when the file does not exist, else its
\* statistics
ReadStats(f) == IF f.exists THEN <<parse_pytest_output(f.data)>> ELSE <<>>

PreStatusAnyCount(pre) ==
  IF pre # <<>>
    THEN IF pre[1].failed >= 0 THEN Reproduced ELSE UnexpectedPass
  ELSE MissingLog

\* main, step 2: the status of the pre-verification phase, from the
\* statistics of the log
PreStatus(pre) ==
  IF pre # <<>>
    THEN IF pre[1].failed > 0 THEN Reproduced ELSE UnexpectedPass
  ELSE MissingLog

PostStatusKeepsInitial(post) ==
  IF post = <<>> THEN Unknown
  ELSE IF post[1].failed = 0 /\ post[1].passed > 0 THEN Fixed
  ELSE FailedFix

PostStatusNoFailures(post) ==
  IF post # <<>>
    THEN IF post[1].failed = 0 THEN Fixed ELSE FailedFix
  ELSE MissingLog

\* main, step 3: the status of the post-verification phase
PostStatus(post) ==
  IF post # <<>>
    THEN IF post[1].failed = 0 /\ post[1].passed > 0 THEN Fixed ELSE FailedFix
  ELSE MissingLog

ResolvedEither(pre, post) == pre = Reproduced \/ post = Fixed

\* main, step 4
Resolved(pre, post) == pre = Reproduced /\ post = Fixed

\* the document main() of the aggregator writes for the directory fs;
\* details holds the statistics of each log that exists (a sequence of none
\* or one stands for the key being absent or present)
Metrics(fs) ==
  LET pre == ReadStats(fs[PreLog])
      post == ReadStats(fs[PostLog])
      pre_status == PreStatus(pre)
      post_status == PostStatus(post)
  IN  [agent_actions |-> IF fs[AgentLog].exists THEN Len(fs[AgentLog].data) ELSE 0,
       pre_verification_status |-> pre_status,
       post_verification_status |-> post_status,
       resolved |-> Resolved(pre_status, post_status),
       details |-> [pre |-> pre, post |-> post]]

\* ------------------------------------------------------- run_claude.py

MODELS ==
  <<"claude-3-haiku-20240307", "claude-3-5-sonnet-20240620",
    "claude-3-sonnet-20240229", "claude-3-opus-20240229">>

TargetDir == "/testbed"
WorkDir == "."

\* what the operating system makes of one command: it was launched and ended
\* with a return code and captured output, or the launch raised
Ran(rc, out) == [launched |-> TRUE, rc |-> rc, stdout |-> out, stderr |-> <<>>]
LaunchFailure == [launched |-> FALSE, rc |-> -1, stdout |-> <<>>, stderr |-> <<"x">>]

\* f"{result.returncode}" for the return codes of the model
RcText(rc) == IF rc = 0 THEN <<"0">> ELSE IF rc = 1 THEN <<"1">> ELSE <<"-", "1">>

\* run_command, the record it appends to log_file
LogRecord(command, o) ==
  <<NL, "Command:", SP>> \o command \o <<NL>>
    \o <<"Return Code:", SP>> \o RcText(o.rc) \o <<NL>>
    \o <<"---", SP, "OUTPUT", SP, "---", NL>>
    \o (o.stdout \o o.stderr)
    \o <<NL, "--------------", NL>>

\* open(name, "a") and write
AppendTo(fs, name, d) ==
  [fs EXCEPT ![name] = File(IF fs[name].exists THEN fs[name].data \o d ELSE d)]

\* open(name, "w") and write
WriteTo(fs, name, d) == [fs EXCEPT ![name] = File(d)]

RemoveNothing(fs, name) == fs

\* os.remove when the file exists
Remove(fs, name) == [fs EXCEPT ![name] = Absent]

\* run_command(command, log_file): the working directory afterwards.  A launch
\* that raises writes nothing.
RunLogged(fs, name, command, o) ==
  IF o.launched THEN AppendTo(fs, name, LogRecord(command, o)) ELSE fs

\* run_command without check: (return code, stdout, stderr)
RunResult(o) ==
  IF o.launched THEN [rc |-> o.rc, stdout |-> o.stdout, stderr |-> o.stderr]
  ELSE [rc |-> -1, stdout |-> <<>>, stderr |-> o.stderr]

\* how a call of run_command ends: it returns a triple or it raises
Returned(rc, out, err) ==
  [raised |-> FALSE, rc |-> rc, stdout |-> out, stderr |-> err]
Raised == [raised |-> TRUE, rc |-> 0, stdout |-> <<>>, stderr |-> <<>>]

RunCommandSwallows(o, check) ==
  IF o.launched
    THEN IF check /\ o.rc # 0 THEN Raised ELSE Returned(o.rc, o.stdout, o.stderr)
  ELSE Returned(-1, <<>>, o.stderr)

\* run_command(command, log_file, check, cwd), how it ends: with check a
\* nonzero return code raises CalledProcessError, which the handler raises
\* again, as it does an exception of the launch
run_command(o, check) ==
  IF o.launched
    THEN IF check /\ o.rc # 0 THEN Raised ELSE Returned(o.rc, o.stdout, o.stderr)
  ELSE IF check THEN Raised
  ELSE Returned(-1, <<>>, o.stderr)

\* call_anthropic: the tail of the logs that goes into the user message
LogTailChars == 8000
\* call_anthropic: the part of the user message shown in prompts.md
PreviewChars == 1000

UserMessage(logtext) ==
  <<"Here are the failure logs from the pre-verification step:", NL, NL>>
    \o TailChars(logtext, LogTailChars)

\* the line of prompts.log (the timestamp is left out; the response document
\* is the text it carries)
PromptEntry(logtext, text) == [prompt |-> UserMessage(logtext), response |-> text]

\* the section of prompts.md (the time of day and the model name are left
\* out)
PromptSection(logtext, text) ==
  [request |-> HeadChars(UserMessage(logtext), PreviewChars) \o <<"...(truncated)...">>,
   response |-> text]

\* Python's None and a value
None == [some |-> FALSE, text |-> <<>>]
Some(t) == [some |-> TRUE, text |-> t]
IsNotNone(x) == x.some

\* `if x:` for x a string or None
Truthy(x) == x.some /\ x.text # <<>>

\* the token for a fence, three backquotes in a row
FENCE == "<fence>"
DiffGit == <<"diff", " --git">>
MinusA == <<"--- a/">>
IndexWord == <<"index">>

\* the first position >= j that holds a fence, or 0
RECURSIVE NextFence(_, _)
NextFence(s, j) ==
  IF j > Len(s) THEN 0 ELSE IF s[j] = FENCE THEN j ELSE NextFence(s, j + 1)

\* re.search with re.DOTALL for an opener, a lazy group and a closing fence,
\* from position i on: group 1 is the text between the leftmost opener that
\* has a fence after it and the first such fence
RECURSIVE FencedFrom(_, _, _)
FencedFrom(s, opener, i) ==
  IF i + Len(opener) - 1 > Len(s) THEN None
  ELSE IF SubSeq(s, i, i + Len(opener) - 1) = opener
            /\ NextFence(s, i + Len(opener)) > 0
    THEN Some(SubSeq(s, i + Len(opener), NextFence(s, i + Len(opener)) - 1))
  ELSE FencedFrom(s, opener, i + 1)

extract_patch(response_text) ==
  LET tagged == FencedFrom(response_text, <<FENCE, "diff", NL>>, 1)
      generic == FencedFrom(response_text, <<FENCE, NL>>, 1)
  IN  IF tagged.some THEN tagged
      ELSE IF generic.some
                /\ (Contains(generic.text, DiffGit) \/ Contains(generic.text, MinusA))
        THEN generic
      ELSE IF Contains(response_text, DiffGit) /\ Contains(response_text, IndexWord)
        THEN Some(response_text)
      ELSE None

\* the first position >= i that holds a newline, or the position after the
\* text
RECURSIVE LineEnd(_, _)
LineEnd(s, i) == IF i <= Len(s) /\ s[i] # NL THEN LineEnd(s, i + 1) ELSE i

\* str.splitlines
RECURSIVE SplitLines(_)
SplitLines(s) ==
  IF s = <<>> THEN <<>>
  ELSE <<SubSeq(s, 1, LineEnd(s, 1) - 1)>>
         \o SplitLines(SubSeq(s, LineEnd(s, 1) + 1, Len(s)))

\* str.strip
RECURSIVE Strip(_)
Strip(s) ==
  IF s = <<>> THEN s
  ELSE IF IsSpace(s[1]) THEN Strip(Tail(s))
  ELSE IF IsSpace(s[Len(s)]) THEN Strip(SubSeq(s, 1, Len(s) - 1))
  ELSE s

StartsWith(s, prefix) == Len(s) >= Len(prefix) /\ SubSeq(s, 1, Len(prefix)) = prefix

CdPrefix == <<"cd", SP>>

\* main, the setup loop: the lines of setup.commands that are run
SetupLines(setup_cmds) ==
  SelectSeq(SplitLines(setup_cmds),
            LAMBDA cmd : Strip(cmd) # <<>> /\ ~StartsWith(Strip(cmd), CdPrefix))

GitConfig == <<"git config --global --add safe.directory /testbed">>
GitStatus == <<"git status">>
GitApply == <<"git apply", SP, "/abs/changes.patch">>
PatchP1 == <<"patch -p1 <", SP, "/abs/changes.patch">>

Cmd(command, cwd) == [cmd |-> command, cwd |-> cwd]

\* ---------------------------------------------------------------- inputs

\* the orchestrator processes started in one working directory
MaxRuns == 2

\* task.yaml: absent, not YAML, YAML without tests.test_command, or a task
MissingConfig == [kind |-> "missing", test_command |-> <<>>, setup |-> <<>>]
MalformedConfig == [kind |-> "malformed", test_command |-> <<>>, setup |-> <<>>]
NoTestsConfig == [kind |-> "no_tests", test_command |-> <<>>, setup |-> <<>>]
Task(tc, setup) == [kind |-> "task", test_command |-> tc, setup |-> setup]

SetupText == <<SP, "cd", SP, "x", NL, NL, "pip install", NL, SP, "make", SP, NL>>

Configs ==
  {MissingConfig, MalformedConfig, NoTestsConfig,
   Task(<<"pytest", SP, "--tb", EQ, "short">>, SetupText)}

\* "== k failed, m passed in 1.2s ==" and "== m passed in 1.2s ==", k and m
\* texts of digits
SummaryLine(with_failed, k, m) ==
  <<EQ, EQ, SP>> \o (IF with_failed THEN k \o <<SP, "failed", ",", SP>> ELSE <<>>)
    \o m \o <<SP, "passed", SP, "in", SP, "1", ".", "2", "s", SP, EQ, EQ>>

\* the first line a test session prints
SessionHeader == <<EQ, EQ, SP, "test session starts", SP, EQ, EQ, NL>>

Fails2Of5 == Ran(1, SummaryLine(TRUE, <<"2">>, <<"3">>))
Passes5 == Ran(0, SummaryLine(TRUE, <<"0">>, <<"5">>))

\* what the test command may do: end with a summary line and nothing before
\* it, or fail to launch
TestOutcomes == {Fails2Of5, Passes5, LaunchFailure}

\* the same, and the output of a whole test session: a header line, then the
\* summary line
SessionOutcomes ==
  TestOutcomes
    \cup {Ran(1, SessionHeader \o SummaryLine(TRUE, <<"2">>, <<"3">>)),
          Ran(0, SessionHeader \o SummaryLine(TRUE, <<"0">>, <<"5">>))}

\* what the setup commands of SetupText may do, one outcome per command
\* run, each drawn from `each`
SetupOutcomes(each) == [1..Len(SetupLines(SetupText)) -> each]

\* what a patch-application command may do
ApplyOutcomes == {Ran(0, <<>>), Ran(1, <<>>), LaunchFailure}

\* the text of a successful model response
DiffResponse == <<FENCE, "diff", NL, "diff", " --git", SP, "x", NL, FENCE>>
Responses == {<<>>, <<"x">>, DiffResponse}

\* more shapes of a response: a tagged block with nothing in it, an untagged
\* block with a diff header, an untagged block without one, a diff without
\* fences
EmptyDiffResponse == <<FENCE, "diff", NL, FENCE>>
GenericDiffResponse == <<"x", NL, FENCE, NL, "--- a/", "x", NL, FENCE>>
GenericOtherResponse == <<FENCE, NL, "x", NL, FENCE>>
BareDiffResponse == <<"diff", " --git", SP, "x", NL, "index", SP, "1", NL>>

SessionResponses ==
  Responses
    \cup {EmptyDiffResponse, GenericDiffResponse, GenericOtherResponse,
          BareDiffResponse}

\* the logs argument of a call of call_anthropic from outside main
DirectLogs == {<<"x">>}

\* ----------------------------------------------------------------- state

VARIABLES
  files,           \* the working directory
  config,          \* task.yaml
  pc,              \* where the running process is, or how the last one ended
  entry,           \* what the process was started for: main or call_anthropic
  runs,            \* the processes started so far
  cred,            \* API_KEY is set
  target,          \* /testbed exists
  mi,              \* call_anthropic: the index in MODELS of the next attempt
  logs,            \* call_anthropic: its logs argument
  agent_response,  \* what call_anthropic returned
  attempts,        \* this process: the requests sent, in order, and how each ended
  cmds_run,        \* this process: the commands handed to run_command, in order
  verify,          \* this process: what the test command did, per run of it
  applied,         \* this process: the return codes of the apply commands
  setup_rets,      \* this process: the return codes of the setup commands
  log_run,         \* which process wrote each verification log, 0 for none
  written,         \* this process: the files it wrote
  exit_code,       \* the exit code of the process, once it has exited
  content,         \* the parser alone: the text it is given
  summary,         \* the parser alone: the summary line the text ends in
  parsed,          \* the parser alone: what parse_pytest_output returned
  response_text,   \* the extractor alone: the text it is given
  blocks,          \* the extractor alone: the parts the text is made of
  patch,           \* the extractor alone: what extract_patch returned
  called           \* run_command alone: its last call and how it ended

vars ==
  <<files, config, pc, entry, runs, cred, target, mi, logs, agent_response,
    attempts, cmds_run, verify, applied, setup_rets, log_run, written,
    exit_code, content, summary, parsed, response_text, blocks, patch, called>>

procVars ==
  <<pc, entry, runs, cred, target, mi, logs, agent_response, attempts, cmds_run,
    verify, applied, setup_rets, log_run, written, exit_code>>

parseVars == <<content, summary, parsed>>

extractVars == <<response_text, blocks, patch>>

cmdVars == <<called>>

textVars == <<parseVars, extractVars, cmdVars>>

NoSummary == [has |-> FALSE, with_failed |-> FALSE, k |-> <<>>, m |-> <<>>]
NotParsed == [done |-> FALSE, stats |-> Stats(0, 0, FALSE)]

\* no process has run
NoProcess ==
  /\ pc = "idle"
  /\ entry = "main"
  /\ runs = 0
  /\ cred = FALSE
  /\ target = FALSE
  /\ mi = 0
  /\ logs = <<>>
  /\ agent_response = None
  /\ attempts = <<>>
  /\ cmds_run = <<>>
  /\ verify = <<>>
  /\ applied = <<>>
  /\ setup_rets = <<>>
  /\ log_run = [pre |-> 0, post |-> 0]
  /\ written = {}
  /\ exit_code = <<>>

NotExtracted == [done |-> FALSE, value |-> None]
NotCalled ==
  [done |-> FALSE, check |-> FALSE, logged |-> FALSE, o |-> LaunchFailure,
   result |-> Raised]

NoText ==
  /\ content = <<>>
  /\ summary = NoSummary
  /\ parsed = NotParsed
  /\ response_text = <<>>
  /\ blocks = <<>>
  /\ patch = NotExtracted
  /\ called = NotCalled

Init ==
  /\ files = EmptyDir
  /\ config \in Configs
  /\ NoProcess
  /\ NoText

\* no process is running
Stopped == {"idle", "DONE", "EXIT", "RETURNED"}

\* ------------------------------------------------- the orchestrator, main

\* a process starts: main run as a script, or call_anthropic called by a
\* program that imported the module.  The environment decides whether the
\* credential is set and whether the target directory exists.
Start(e, c, t, l) ==
  /\ pc \in Stopped
  /\ runs < MaxRuns
  /\ runs' = runs + 1
  /\ entry' = e
  /\ cred' = c
  /\ target' = t
  /\ logs' = l
  /\ pc' = IF e = "main" THEN "INIT" ELSE "AGENT_CALL"
  /\ mi' = 0
  /\ agent_response' = None
  /\ attempts' = <<>>
  /\ cmds_run' = <<>>
  /\ verify' = <<>>
  /\ applied' = <<>>
  /\ setup_rets' = <<>>
  /\ written' = {}
  /\ exit_code' = <<>>
  /\ UNCHANGED <<files, config, log_run>>
  /\ UNCHANGED textVars

StartMain == \E c \in BOOLEAN, t \in BOOLEAN : Start("main", c, t, <<>>)

StartCall == \E c \in BOOLEAN, l \in DirectLogs : Start("call_anthropic", c, TRUE, l)

\* sys.exit(code), or the exit of a process that an uncaught exception ends
Exit(code) ==
  /\ pc' = "EXIT"
  /\ exit_code' = <<code>>

InitFatalConfigOnly(c, cfg) == cfg.kind # "task"

\* main, "Check Environment" and "Load Task Config": the process stops here
\* without the credential, without task.yaml, with a task.yaml that is not
\* YAML, and (by a KeyError) with one that has no tests.test_command
InitFatal(c, cfg) == ~c \/ cfg.kind # "task"

InitStep ==
  /\ pc = "INIT"
  /\ IF InitFatal(cred, config)
       THEN Exit(1)
     ELSE pc' = "SETUP" /\ UNCHANGED exit_code
  /\ UNCHANGED <<files, setup_rets, log_run, config, entry, runs, cred,
                 target, mi, logs, agent_response, attempts, cmds_run, verify,
                 applied, written>>
  /\ UNCHANGED textVars

SetupRunUntilFailure(lines, rets) ==
  IF \E n \in 1..Len(rets) : rets[n] # 0
    THEN SubSeq(lines, 1, CHOOSE n \in 1..Len(rets) :
                            rets[n] # 0 /\ \A m \in 1..(n - 1) : rets[m] = 0)
  ELSE lines

\* main, the setup loop: the commands that are run, given the lines to run
\* and the codes their runs return.  A code other than 0 is logged and the
\* loop goes on.
SetupRun(lines, rets) == lines

\* main, "Setup": outs[n] is what the n-th setup command does when it is run
SetupStep(outs) ==
  /\ pc = "SETUP"
  /\ IF ~target
       THEN Exit(1) /\ UNCHANGED <<cmds_run, setup_rets>>
     ELSE /\ pc' = "PRE_VERIFY"
          /\ LET lines == IF config.setup # <<>> THEN SetupLines(config.setup) ELSE <<>>
                 rets == [n \in 1..Len(lines) |-> RunResult(outs[n]).rc]
                 ran == SetupRun(lines, rets)
             IN  /\ cmds_run' =
                      cmds_run \o <<Cmd(GitConfig, WorkDir), Cmd(GitStatus, TargetDir)>>
                        \o [n \in 1..Len(ran) |-> Cmd(ran[n], TargetDir)]
                 /\ setup_rets' = SubSeq(rets, 1, Len(ran))
          /\ UNCHANGED exit_code
  /\ UNCHANGED <<files, config, log_run, entry, runs, cred, target, mi, logs,
                 agent_response, attempts, verify, applied, written>>
  /\ UNCHANGED textVars

\* main, "Pre-Verification", and the logs prepared for the agent
PreVerifyStep(o) ==
  /\ pc = "PRE_VERIFY"
  /\ files' = RunLogged(Remove(files, PreLog), PreLog, config.test_command, o)
  /\ cmds_run' = Append(cmds_run, Cmd(config.test_command, WorkDir))
  /\ verify' = Append(verify, o)
  /\ log_run' = [log_run EXCEPT !.pre = IF o.launched THEN runs ELSE 0]
  /\ written' = IF o.launched THEN written \cup {PreLog} ELSE written
  /\ logs' = IF files'[PreLog].exists
               THEN files'[PreLog].data
             ELSE RunResult(o).stdout \o <<NL>> \o RunResult(o).stderr
  /\ pc' = "AGENT_CALL"
  /\ UNCHANGED <<config, setup_rets, entry, runs, cred, target, mi,
                 agent_response, attempts, applied, exit_code>>
  /\ UNCHANGED textVars

\* ---------------------------------------------------------- call_anthropic

\* the entry of call_anthropic: without the credential it returns None
CallEnter ==
  /\ pc = "AGENT_CALL"
  /\ IF ~cred
       THEN agent_response' = None /\ pc' = "CALL_RET" /\ UNCHANGED mi
     ELSE mi' = 1 /\ pc' = "CALL_LOOP" /\ UNCHANGED agent_response
  /\ UNCHANGED <<files, setup_rets, log_run, config, entry, runs, cred,
                 target, logs, attempts, cmds_run, verify, applied, written,
                 exit_code>>
  /\ UNCHANGED textVars

NextModelSkips(i) == i + 2

\* `for model_name in MODELS`, `continue`
NextModel(i) == i + 1

\* the request for MODELS[mi] raises a RequestException (transport error or a
\* status that raise_for_status rejects): the loop goes on, and after the
\* last model call_anthropic returns None
AttemptFail ==
  /\ pc = "CALL_LOOP"
  /\ mi <= Len(MODELS)
  /\ attempts' = Append(attempts, [model |-> MODELS[mi], ok |-> FALSE, text |-> <<>>])
  /\ mi' = NextModel(mi)
  /\ IF mi' > Len(MODELS)
       THEN agent_response' = None /\ pc' = "CALL_RET"
     ELSE UNCHANGED <<agent_response, pc>>
  /\ UNCHANGED <<files, setup_rets, log_run, config, entry, runs, cred,
                 target, logs, cmds_run, verify, applied, written, exit_code>>
  /\ UNCHANGED textVars

\* `return result['content'][0]['text']`
AfterSuccess(text) ==
  /\ agent_response' = Some(text)
  /\ pc' = "CALL_RET"
  /\ UNCHANGED mi

\* the request for MODELS[mi] succeeds with `text`: the exchange is appended
\* to prompts.log and prompts.md and the text is returned
AttemptOk(text) ==
  /\ pc = "CALL_LOOP"
  /\ mi <= Len(MODELS)
  /\ attempts' = Append(attempts, [model |-> MODELS[mi], ok |-> TRUE, text |-> text])
  /\ files' = AppendTo(AppendTo(files, PromptsLog, <<PromptEntry(logs, text)>>),
                       PromptsMd, <<PromptSection(logs, text)>>)
  /\ written' = written \cup {PromptsLog, PromptsMd}
  /\ AfterSuccess(text)
  /\ UNCHANGED <<config, setup_rets, log_run, entry, runs, cred, target, logs,
                 cmds_run, verify, applied, exit_code>>
  /\ UNCHANGED textVars

\* call_anthropic returns to the program that called it from outside main
DirectReturn ==
  /\ pc = "CALL_RET"
  /\ entry = "call_anthropic"
  /\ pc' = "RETURNED"
  /\ UNCHANGED <<files, setup_rets, log_run, config, entry, runs, cred,
                 target, mi, logs, agent_response, attempts, cmds_run, verify,
                 applied, written, exit_code>>
  /\ UNCHANGED textVars

\* -------------------------------------------- main, after the agent call

AgentFailedNever(response) == FALSE

AgentFailedInverted(response) == Truthy(response)

\* `if not agent_response`: None and the empty text alike
AgentFailed(response) == ~Truthy(response)

\* the line of agent.log
AgentLogEntry(text) ==
  [action |-> "generate_patch", observation |-> "Analyzed logs and generated patch",
   response_length |-> Len(text)]

\* main: call_anthropic has returned; without a response the process exits,
\* with one it saves the agent log
AgentReturn ==
  /\ pc = "CALL_RET"
  /\ entry = "main"
  /\ IF AgentFailed(agent_response)
       THEN Exit(1) /\ UNCHANGED <<files, written>>
     ELSE /\ files' = WriteTo(files, AgentLog, <<AgentLogEntry(agent_response.text)>>)
          /\ written' = written \cup {AgentLog}
          /\ pc' = "PATCH_APPLY"
          /\ UNCHANGED exit_code
  /\ UNCHANGED <<config, setup_rets, log_run, entry, runs, cred, target, mi,
                 logs, agent_response, attempts, cmds_run, verify, applied>>
  /\ UNCHANGED textVars

ApplyFailedOnRaise(apply_ret) == apply_ret < 0

\* `if apply_ret != 0`
ApplyFailed(apply_ret) == apply_ret # 0

\* main, "Apply Patch": a1 and a2 are what git apply and patch -p1 do when
\* they are run
PatchApplyStep(a1, a2) ==
  /\ pc = "PATCH_APPLY"
  /\ LET patch_content == extract_patch(agent_response.text)
     IN  IF Truthy(patch_content)
           THEN /\ files' = WriteTo(files, PatchFile, patch_content.text)
                /\ written' = written \cup {PatchFile}
                /\ IF ApplyFailed(RunResult(a1).rc)
                     THEN /\ cmds_run' = cmds_run \o <<Cmd(GitApply, TargetDir),
                                                       Cmd(PatchP1, TargetDir)>>
                          /\ applied' = <<RunResult(a1).rc, RunResult(a2).rc>>
                   ELSE /\ cmds_run' = Append(cmds_run, Cmd(GitApply, TargetDir))
                        /\ applied' = <<RunResult(a1).rc>>
         ELSE /\ files' = WriteTo(files, RawFile, agent_response.text)
              /\ written' = written \cup {RawFile}
              /\ UNCHANGED <<cmds_run, applied>>
  /\ pc' = "POST_VERIFY"
  /\ UNCHANGED <<config, setup_rets, log_run, entry, runs, cred, target, mi,
                 logs, agent_response, attempts, verify, exit_code>>
  /\ UNCHANGED textVars

\* main, "Post-Verification", and the end of the workflow
PostVerifyStep(o) ==
  /\ pc = "POST_VERIFY"
  /\ files' = RunLogged(Remove(files, PostLog), PostLog, config.test_command, o)
  /\ cmds_run' = Append(cmds_run, Cmd(config.test_command, WorkDir))
  /\ verify' = Append(verify, o)
  /\ log_run' = [log_run EXCEPT !.post = IF o.launched THEN runs ELSE 0]
  /\ written' = IF o.launched THEN written \cup {PostLog} ELSE written
  /\ pc' = "DONE"
  /\ exit_code' = <<0>>
  /\ UNCHANGED <<config, setup_rets, entry, runs, cred, target, mi, logs,
                 agent_response, attempts, applied>>
  /\ UNCHANGED textVars

\* ------------------------------------------ the metrics aggregator, main

\* one run of the aggregator over the working directory, when no
\* orchestrator is running; it is the last pass over the directory
ExtractMetrics ==
  /\ pc \in Stopped
  /\ files' = WriteTo(files, ResultFile, <<Metrics(files)>>)
  /\ pc' = "METRICS"
  /\ UNCHANGED <<config, setup_rets, log_run, entry, runs, cred, target, mi,
                 logs, agent_response, attempts, cmds_run, verify, applied,
                 written, exit_code>>
  /\ UNCHANGED textVars

\* the processes of a working directory.  The setup commands succeed here:
\* main ignores what they return, and SpecOneRun lets them fail.
Next ==
  \/ StartMain
  \/ StartCall
  \/ InitStep
  \/ \E outs \in SetupOutcomes({Ran(0, <<>>)}) : SetupStep(outs)
  \/ \E o \in TestOutcomes : PreVerifyStep(o)
  \/ CallEnter
  \/ AttemptFail
  \/ \E text \in Responses : AttemptOk(text)
  \/ DirectReturn
  \/ AgentReturn
  \/ \E a1 \in ApplyOutcomes, a2 \in ApplyOutcomes : PatchApplyStep(a1, a2)
  \/ \E o \in TestOutcomes : PostVerifyStep(o)
  \/ ExtractMetrics

Spec == Init /\ [][Next]_vars

\* one orchestrator run in an empty directory, with setup commands that may
\* fail, the test command printing whole sessions and responses of every
\* shape, and the aggregator after it
StartFirst == pc = "idle" /\ StartMain

NextOneRun ==
  \/ StartFirst
  \/ InitStep
  \/ \E outs \in SetupOutcomes(ApplyOutcomes) : SetupStep(outs)
  \/ \E o \in SessionOutcomes : PreVerifyStep(o)
  \/ CallEnter
  \/ AttemptFail
  \/ \E text \in SessionResponses : AttemptOk(text)
  \/ AgentReturn
  \/ \E a1 \in ApplyOutcomes, a2 \in ApplyOutcomes : PatchApplyStep(a1, a2)
  \/ \E o \in SessionOutcomes : PostVerifyStep(o)
  \/ ExtractMetrics

SpecOneRun == Init /\ [][NextOneRun]_vars

\* the steps of the one running process.  Each is one blocking operation
\* (a subprocess or a request) that main waits for, so a process that can
\* take its next step takes it.
MainStep ==
  \/ InitStep
  \/ \E outs \in SetupOutcomes({Ran(0, <<>>)}) : SetupStep(outs)
  \/ \E o \in TestOutcomes : PreVerifyStep(o)
  \/ CallEnter
  \/ AttemptFail
  \/ \E text \in Responses : AttemptOk(text)
  \/ AgentReturn
  \/ \E a1 \in ApplyOutcomes, a2 \in ApplyOutcomes : PatchApplyStep(a1, a2)
  \/ \E o \in TestOutcomes : PostVerifyStep(o)

NextOneRunLive ==
  \/ StartFirst
  \/ MainStep
  \/ ExtractMetrics

\* one orchestrator run in an empty directory, every step of which returns
SpecOneRunLive == Init /\ [][NextOneRunLive]_vars /\ WF_vars(MainStep)

\* ------------------------------------- the aggregator on any directory

NoTestsLine == <<EQ, EQ, SP, NoTestsRan, SP, "in", SP, "0", ".", "1", "s", SP, EQ, EQ>>
FailedOnlyLine == <<EQ, EQ, SP, "2", SP, "failed", SP, "in", SP, "1", ".", "2", "s", SP, EQ, EQ>>

\* the contents of a verification log the aggregator may find
LogTexts ==
  {<<>>,
   SummaryLine(TRUE, <<"2">>, <<"3">>),
   SummaryLine(TRUE, <<"0">>, <<"5">>),
   SummaryLine(FALSE, <<>>, <<"4">>),
   FailedOnlyLine,
   NoTestsLine,
   <<NoTestsRan, NL>> \o SummaryLine(FALSE, <<>>, <<"4">>),
   SessionHeader \o SummaryLine(TRUE, <<"2">>, <<"3">>),
   LogRecord(<<"pytest">>, Fails2Of5),
   LogRecord(<<"pytest">>, Passes5),
   <<"x", NL, "x">>,
   SessionHeader,
   LogRecord(<<"pytest">>, Ran(1, <<"x">>))}

\* a result.json left by an earlier pass
StaleResults == {Absent, File(<<"x">>)}

LogFiles == {Absent} \cup {File(t) : t \in LogTexts}

AgentLogs ==
  {Absent, File(<<>>), File(<<AgentLogEntry(<<"x">>)>>),
   File(<<AgentLogEntry(<<"x">>), AgentLogEntry(<<>>)>>)}

InitMetrics ==
  /\ \E pre \in LogFiles, post \in LogFiles, agent \in AgentLogs,
        result \in StaleResults :
       files = [EmptyDir EXCEPT ![PreLog] = pre, ![PostLog] = post,
                                ![AgentLog] = agent, ![ResultFile] = result]
  /\ config = MissingConfig
  /\ NoProcess
  /\ NoText

NextMetrics == ExtractMetrics

SpecMetrics == InitMetrics /\ [][NextMetrics]_vars

\* ------------------------------------------- the parser on any short text

\* the tokens typed before the summary line
MaxPrefix == 3

PrefixTokens == {EQ, SP, NL, "3", "failed", "passed", ",", "x", NoTestsRan}

SummaryCounts == {<<"0">>, <<"3">>, <<"1", "2">>}

InitParser ==
  /\ files = EmptyDir
  /\ config = MissingConfig
  /\ NoProcess
  /\ NoText

TypeToken(t) ==
  /\ ~parsed.done
  /\ ~summary.has
  /\ Len(content) < MaxPrefix
  /\ content' = Append(content, t)
  /\ UNCHANGED <<summary, parsed, files, config>>
  /\ UNCHANGED procVars
  /\ UNCHANGED <<extractVars, cmdVars>>

\* the text ends in a summary line
TypeSummary(with_failed, k, m) ==
  /\ ~parsed.done
  /\ ~summary.has
  /\ content' = content \o SummaryLine(with_failed, k, m)
  /\ summary' = [has |-> TRUE, with_failed |-> with_failed, k |-> k, m |-> m]
  /\ UNCHANGED <<parsed, files, config>>
  /\ UNCHANGED procVars
  /\ UNCHANGED <<extractVars, cmdVars>>

Parse ==
  /\ ~parsed.done
  /\ parsed' = [done |-> TRUE, stats |-> parse_pytest_output(content)]
  /\ UNCHANGED <<content, summary, files, config>>
  /\ UNCHANGED procVars
  /\ UNCHANGED <<extractVars, cmdVars>>

NextParser ==
  \/ \E t \in PrefixTokens : TypeToken(t)
  \/ \E k \in SummaryCounts, m \in SummaryCounts : TypeSummary(TRUE, k, m)
  \/ \E m \in SummaryCounts : TypeSummary(FALSE, <<>>, m)
  \/ Parse

SpecParser == InitParser /\ [][NextParser]_vars

\* ---------------------------------------- the extractor on any response

\* the parts a response is made of
MaxParts == 3

\* what a block or a stretch of plain text may hold
PartBodies ==
  {<<>>,
   <<"x", NL>>,
   DiffGit \o <<SP, "x", NL>>,
   MinusA \o <<"x", NL>>,
   DiffGit \o <<SP, "x", NL>> \o IndexWord \o <<SP, "1", NL>>}

PartKinds == {"tagged", "generic", "plain"}

\* a block tagged diff, a block without a tag, or text outside any block
PartText(part) ==
  IF part.kind = "tagged" THEN <<FENCE, "diff", NL>> \o part.body \o <<FENCE>>
  ELSE IF part.kind = "generic" THEN <<FENCE, NL>> \o part.body \o <<FENCE>>
  ELSE part.body

InitExtract ==
  /\ files = EmptyDir
  /\ config = MissingConfig
  /\ NoProcess
  /\ NoText

\* the response goes on, after a newline, with one more part
AddPart(kind, body) ==
  /\ ~patch.done
  /\ Len(blocks) < MaxParts
  /\ blocks' = Append(blocks, [kind |-> kind, body |-> body])
  /\ response_text' =
       (IF blocks = <<>> THEN <<>> ELSE response_text \o <<NL>>)
         \o PartText([kind |-> kind, body |-> body])
  /\ UNCHANGED <<patch, files, config>>
  /\ UNCHANGED procVars
  /\ UNCHANGED <<parseVars, cmdVars>>

Extract ==
  /\ ~patch.done
  /\ patch' = [done |-> TRUE, value |-> extract_patch(response_text)]
  /\ UNCHANGED <<response_text, blocks, files, config>>
  /\ UNCHANGED procVars
  /\ UNCHANGED <<parseVars, cmdVars>>

NextExtract ==
  \/ \E kind \in PartKinds, body \in PartBodies : AddPart(kind, body)
  \/ Extract

SpecExtract == InitExtract /\ [][NextExtract]_vars

\* ------------------------------------------- run_command on any command

\* the calls of run_command
MaxCommands == 2

Commands == {<<"make">>, <<"pytest">>}

\* what the operating system may make of a command
CommandOutcomes ==
  {Ran(0, <<"x">>), Ran(1, <<"x">>),
   [launched |-> TRUE, rc |-> 2, stdout |-> <<"x">>, stderr |-> <<"e">>],
   LaunchFailure}

InitCommand ==
  /\ files = EmptyDir
  /\ config = MissingConfig
  /\ NoProcess
  /\ NoText

\* one call of run_command, with or without a log file, with or without check
RunCommand(command, logged, check, o) ==
  /\ Len(cmds_run) < MaxCommands
  /\ cmds_run' = Append(cmds_run, Cmd(command, WorkDir))
  /\ files' = IF logged THEN RunLogged(files, PreLog, command, o) ELSE files
  /\ called' = [done |-> TRUE, check |-> check, logged |-> logged, o |-> o,
                result |-> run_command(o, check)]
  /\ UNCHANGED <<config, setup_rets, log_run, pc, entry, runs, cred, target,
                 mi, logs, agent_response, attempts, verify, applied, written,
                 exit_code>>
  /\ UNCHANGED <<parseVars, extractVars>>

NextCommand ==
  \E command \in Commands, logged \in BOOLEAN, check \in BOOLEAN,
     o \in CommandOutcomes : RunCommand(command, logged, check, o)

SpecCommand == InitCommand /\ [][NextCommand]_vars

\* ================================================================ claims

\* the document of result.json
Result == files[ResultFile].data[1]

\* the aggregator has run and nothing has touched the directory since
MetricsWritten == pc = "METRICS" /\ files[ResultFile].exists

\* C1 (SpecMetrics): whatever the pre and post logs are, missing ones
\* included, the aggregator writes resolved = true exactly when the pre
\* status it writes is success_failure_reproduced and the post status it
\* writes is success_fixed.
C1_ResolvedIffBoth ==
  MetricsWritten =>
    (Result.resolved <=>
       (Result.pre_verification_status = Reproduced
          /\ Result.post_verification_status = Fixed))

C1_Witness ==
  /\ MetricsWritten
  /\ Result.resolved
  /\ files[PreLog].exists
  /\ files[PostLog].exists

\* C2 (SpecMetrics): with pre_verification.log present the pre status is
\* success_failure_reproduced when the failed count parsed from the log is
\* above zero and unexpected_pass when it is not; with the log missing the
\* status is missing_log.
C2_PreStatus ==
  MetricsWritten =>
    IF files[PreLog].exists
      THEN IF parse_pytest_output(files[PreLog].data).failed > 0
             THEN Result.pre_verification_status = Reproduced
           ELSE Result.pre_verification_status = UnexpectedPass
    ELSE Result.pre_verification_status = MissingLog

C2_Witness ==
  /\ MetricsWritten
  /\ files[PreLog].exists
  /\ parse_pytest_output(files[PreLog].data).failed = 0
  /\ parse_pytest_output(files[PreLog].data).passed > 0
  /\ Result.pre_verification_status = UnexpectedPass

C4_SummaryLineParsed ==
  (parsed.done /\ summary.has /\ ~Contains(content, <<NoTestsRan>>)) =>
    parsed.stats =
      Stats(IntOf(summary.m, 1, Len(summary.m) + 1),
            IF summary.with_failed THEN IntOf(summary.k, 1, Len(summary.k) + 1) ELSE 0,
            FALSE)

\* C5 (SpecParser): a text that contains "no tests ran" parses to passed = 0,
\* failed = 0, errored = true, whatever else it holds.
C5_NoTestsRan ==
  (parsed.done /\ Contains(content, <<NoTestsRan>>)) =>
    parsed.stats = Stats(0, 0, TRUE)

\* the marker in front of a summary line that reports tests
C5_Witness ==
  /\ parsed.done
  /\ summary.has
  /\ summary.m # <<"0">>
  /\ Contains(content, <<NoTestsRan>>)
  /\ parsed.stats = Stats(0, 0, TRUE)

EndsWith(s, suffix) ==
  Len(s) >= Len(suffix) /\ SubSeq(s, Len(s) - Len(suffix) + 1, Len(s)) = suffix

\* the test command ran and its output ends in the summary line
\* "== k failed, m passed in <time> =="
ShowsSummary(o, k, m) == o.launched /\ EndsWith(o.stdout, SummaryLine(TRUE, k, m))

\* the last orchestrator process reached DONE
ReachedDone == entry = "main" /\ exit_code = <<0>>

\* C6 (SpecOneRun): an orchestrator run reaches DONE, its pre-verification
\* output ends in the summary "2 failed, 3 passed", a diff was extracted and
\* applied with return code 0, its post-verification output ends in the
\* summary "0 failed, 5 passed"; then the aggregator, run over the logs this
\* run wrote, reports resolved = true.
C6_EndToEndResolved ==
  ( /\ MetricsWritten
    /\ ReachedDone
    /\ Len(verify) = 2
    /\ ShowsSummary(verify[1], <<"2">>, <<"3">>)
    /\ ShowsSummary(verify[2], <<"0">>, <<"5">>)
    /\ PatchFile \in written
    /\ applied # <<>>
    /\ applied[Len(applied)] = 0 )
  => Result.resolved

\* the process is in call_anthropic or has come back from it
AllFailed ==
  /\ Len(attempts) = Len(MODELS)
  /\ \A n \in 1..Len(attempts) : ~attempts[n].ok

SomeSucceeded == \E n \in 1..Len(attempts) : attempts[n].ok

\* C7 (Spec): in one call of call_anthropic the n-th request goes to the n-th
\* model of the priority list (so in order, none skipped, none twice); no
\* request follows a successful one; the call returns the text of the
\* successful response; it returns None only without the credential (and
\* then without any request) or after every model was tried and failed.
C7_ModelFallback ==
  /\ Len(attempts) <= Len(MODELS)
  /\ \A n \in 1..Len(attempts) :
       /\ attempts[n].model = MODELS[n]
       /\ n < Len(attempts) => ~attempts[n].ok
  /\ (pc = "CALL_LOOP" /\ attempts # <<>>) => ~attempts[Len(attempts)].ok
  /\ pc = "CALL_RET" =>
       /\ SomeSucceeded => agent_response = Some(attempts[Len(attempts)].text)
       /\ ~agent_response.some => (IF cred THEN AllFailed ELSE attempts = <<>>)
       /\ ~SomeSucceeded => ~agent_response.some

\* two models fail, the third answers
C7_Witness ==
  /\ pc = "CALL_RET"
  /\ Len(attempts) = 3
  /\ attempts[3].ok
  /\ attempts[3].text # <<>>
  /\ agent_response = Some(attempts[3].text)

IsApply(c) == c.cmd = GitApply \/ c.cmd = PatchP1

\* how often this process ran the test command
TestRuns == Len(SelectSeq(cmds_run, LAMBDA c : c.cmd = config.test_command))

\* this process is main and every model has failed it
AllFailedRun == entry = "main" /\ AllFailed

\* C8 (Spec): once every model has failed in AGENT_CALL, the process does
\* nothing but exit with code 1: in that run agent.log, changes.patch,
\* agent_response_raw.txt and post_verification.log are not written, no
\* patch-application command is run and the test command is not run again.
C8_AllModelsFail ==
  /\ [](AllFailedRun =>
          /\ pc \in {"CALL_RET", "EXIT", "METRICS"}
          /\ pc # "CALL_RET" => exit_code = <<1>>
          /\ written \cap {AgentLog, PatchFile, RawFile, PostLog} = {}
          /\ \A n \in 1..Len(cmds_run) : ~IsApply(cmds_run[n])
          /\ TestRuns = 1)
  /\ [][(AllFailedRun /\ pc = "CALL_RET") => (pc' = "EXIT" /\ exit_code' = <<1>>)]_vars

\* the run that fails finds the post log of an earlier run and leaves it
C8_Witness ==
  /\ AllFailedRun
  /\ pc = "EXIT"
  /\ exit_code = <<1>>
  /\ files[PostLog].exists
  /\ files[PatchFile].exists

\* a process runs without the credential, or has run without it
NoCredential == runs > 0 /\ ~cred

\* C9 (Spec): without the credential main exits with code 1 at once: no
\* request is sent, no command is run, no file is written or removed; and
\* call_anthropic called without the credential returns None without a
\* request.
C9_NoCredential ==
  /\ [](NoCredential =>
          /\ attempts = <<>>
          /\ cmds_run = <<>>
          /\ written = {}
          /\ entry = "main" =>
               /\ pc \in {"INIT", "EXIT", "METRICS"}
               /\ pc # "INIT" => exit_code = <<1>>
          /\ entry = "call_anthropic" =>
               /\ pc \in {"AGENT_CALL", "CALL_RET", "RETURNED", "METRICS"}
               /\ pc # "AGENT_CALL" => (agent_response = None /\ exit_code = <<>>))
  /\ [][(NoCredential /\ pc \notin Stopped) => files' = files]_vars

\* main without the credential, in a directory an earlier run has filled
C9_Witness ==
  /\ NoCredential
  /\ entry = "main"
  /\ pc = "EXIT"
  /\ exit_code = <<1>>
  /\ files[AgentLog].exists
  /\ files[PostLog].exists

\* the fatal states of the orchestrator
FatalState ==
  \/ ~cred
  \/ config.kind # "task"
  \/ ~target
  \/ AllFailed

\* C10 (Spec): the orchestrator exits with a code other than zero only in a
\* fatal state (no credential, no or invalid task configuration, no target
\* repository, every model attempt failed); when some model has answered
\* successfully it reaches DONE and exits with zero.
C10_ExitCodes ==
  (entry = "main" /\ exit_code # <<>>) =>
    /\ exit_code # <<0>> => FatalState
    /\ SomeSucceeded => exit_code = <<0>>

\* the commands `c` handed to run_command by this process
Count(c) == Len(SelectSeq(cmds_run, LAMBDA x : x.cmd = c))

\* this process found a patch and is past PATCH_APPLY
PatchHandled == entry = "main" /\ pc \in {"POST_VERIFY", "DONE"} /\ PatchFile \in written

\* C11 (SpecOneRunLive): once a process has handled a found patch, it has run
\* git apply exactly once and patch -p1 exactly once if git apply returned a
\* nonzero code (-1 of a failed launch included) and not at all otherwise;
\* PATCH_APPLY always hands over to POST_VERIFY; and a process whose two
\* apply commands both failed goes on to run the test command a second time
\* and ends in DONE with exit code 0.
C11_PatchApply ==
  /\ [](PatchHandled =>
          /\ Count(GitApply) = 1
          /\ Len(applied) \in {1, 2}
          /\ Count(PatchP1) = Len(applied) - 1
          /\ (Count(PatchP1) = 1 <=> applied[1] # 0))
  /\ [][pc = "PATCH_APPLY" => pc' = "POST_VERIFY" /\ exit_code' = <<>>]_vars
  /\ (PatchHandled /\ pc = "POST_VERIFY" /\ Len(applied) = 2 /\ applied[2] # 0)
       ~> (pc = "DONE" /\ exit_code = <<0>> /\ TestRuns = 2)

\* both apply commands failed and the process is done
C11_Witness ==
  /\ pc = "DONE"
  /\ PatchFile \in written
  /\ applied = <<1, -1>>
  /\ Count(GitApply) = 1
  /\ Count(PatchP1) = 1
  /\ TestRuns = 2

\* a main process is past PATCH_APPLY
PatchStepDone == entry = "main" /\ pc \in {"POST_VERIFY", "DONE"}

\* what the Patch Extractor returns for the response of this process
Extracted == extract_patch(agent_response.text)

\* C12 as stated (SpecOneRun): past PATCH_APPLY the process has written
\* agent_response_raw.txt exactly when the extractor returned null, and
\* changes.patch exactly when it returned a text.
C12_RawIffNull ==
  PatchStepDone =>
    /\ (RawFile \in written <=> ~Extracted.some)
    /\ (PatchFile \in written <=> Extracted.some)

\* C12 as amended (SpecOneRun): past PATCH_APPLY the process has written
\* agent_response_raw.txt, holding the whole response, exactly when the
\* extractor returned null or an empty text, and then it has run no
\* patch-application command; it has written changes.patch, holding the
\* extracted text, exactly when the extractor returned a text that is not
\* empty; and PATCH_APPLY always hands over to POST_VERIFY.
C12_RawIffNoPatch ==
  /\ [](PatchStepDone =>
          /\ (RawFile \in written <=> (~Extracted.some \/ Extracted.text = <<>>))
          /\ (PatchFile \in written <=> (Extracted.some /\ Extracted.text # <<>>))
          /\ (RawFile \in written =>
                /\ files[RawFile] = File(agent_response.text)
                /\ Count(GitApply) = 0
                /\ Count(PatchP1) = 0
                /\ applied = <<>>)
          /\ (PatchFile \in written =>
                /\ files[PatchFile] = File(Extracted.text)
                /\ Count(GitApply) = 1))
  /\ [][pc = "PATCH_APPLY" => pc' = "POST_VERIFY"]_vars

\* a response whose tagged block is empty: the extractor returned the empty
\* text, not null, and the raw response was saved
C12_Witness ==
  /\ PatchStepDone
  /\ agent_response.text = EmptyDiffResponse
  /\ Extracted = Some(<<>>)
  /\ RawFile \in written
  /\ PatchFile \notin written

\* the blocks of kind `kind` among the parts of the response, in order
BlocksOf(kind) == SelectSeq(blocks, LAMBDA part : part.kind = kind)

HasMarker(body) == Contains(body, DiffGit) \/ Contains(body, MinusA)

\* the untagged blocks whose content holds a diff marker
MarkedBlocks == SelectSeq(BlocksOf("generic"), LAMBDA part : HasMarker(part.body))

\* C13 (SpecExtract): for a response made of tagged blocks, untagged blocks
\* and plain text, extract_patch returns the content of the first tagged
\* block if there is one; otherwise the content of an untagged block that
\* holds "diff --git" or "--- a/" if any untagged block does, whether or not
\* it is the first block; otherwise the whole text if it holds both
\* "diff --git" and "index"; otherwise null.
C13_ExtractPriority ==
  patch.done =>
    patch.value =
      IF BlocksOf("tagged") # <<>> THEN Some(BlocksOf("tagged")[1].body)
      ELSE IF MarkedBlocks # <<>> THEN Some(MarkedBlocks[1].body)
      ELSE IF Contains(response_text, DiffGit) /\ Contains(response_text, IndexWord)
        THEN Some(response_text)
      ELSE None

\* C14 (SpecCommand): a call of run_command without check always returns:
\* for a command that ran, its return code (zero or not), stdout and stderr
\* as captured; for a launch that raised, -1, the empty text and the message
\* of the exception.  A call with check raises when the return code is not
\* zero and when the launch raised, and returns otherwise.
C14_RunCommand ==
  called.done =>
    /\ (~called.check /\ called.o.launched =>
          called.result = Returned(called.o.rc, called.o.stdout, called.o.stderr))
    /\ (~called.check /\ ~called.o.launched =>
          called.result = Returned(-1, <<>>, called.o.stderr))
    /\ (called.check => (called.result.raised <=> (~called.o.launched \/ called.o.rc # 0)))

\* the second call of run_command, with check, of a command whose launch raised
C14_Witness ==
  /\ called.done
  /\ called.check
  /\ ~called.o.launched
  /\ called.result.raised
  /\ Len(cmds_run) = 2

\* text `a` is the beginning of text `b`
IsPrefix(a, b) == Len(a) <= Len(b) /\ SubSeq(b, 1, Len(a)) = a

\* what a file holds, nothing when it does not exist
DataOf(fs, name) == IF fs[name].exists THEN fs[name].data ELSE <<>>

\* C15 (Spec): over any sequence of processes in one working directory no
\* step takes anything away from agent.log, prompts.log or prompts.md (what
\* a file held before the step is the beginning of what it holds after it),
\* and the step in which main saves the agent log after a response adds
\* exactly one record to agent.log, so that the file has one line per
\* invocation that obtained a response.
C15_AppendOnly ==
  [][/\ \A name \in {AgentLog, PromptsLog, PromptsMd} :
          IsPrefix(DataOf(files, name), DataOf(files', name))
     /\ (pc = "CALL_RET" /\ pc' = "PATCH_APPLY" =>
          Len(DataOf(files', AgentLog)) = Len(DataOf(files, AgentLog)) + 1)]_vars

\* a text that holds no summary line: neither the words "no tests ran" nor a
\* count of failed or passed tests
NoSummaryLine(t) ==
  /\ ~Contains(t, <<NoTestsRan>>)
  /\ ~Contains(t, <<"failed">>)
  /\ ~Contains(t, <<"passed">>)

\* C16 (SpecMetrics): whichever of agent.log, pre_verification.log and
\* post_verification.log exist and whatever they hold, a step of the
\* aggregator is a whole pass that ends with result.json written (every
\* value of the pass is defined: nothing in it fails on any content); after
\* it result.json holds the one document of this pass and nothing of an
\* earlier result; the pre status is missing_log exactly without the pre log
\* and otherwise success_failure_reproduced or unexpected_pass, the post
\* status is missing_log exactly without the post log and otherwise
\* success_fixed or failed_fix, neither is ever "unknown"; and a log with no
\* summary line is recorded as passed = 0, failed = 0, error = false.
C16_AlwaysCompletes ==
  /\ [][pc' = "METRICS" /\ files'[ResultFile] = File(<<Metrics(files)>>)]_vars
  /\ [](MetricsWritten =>
        /\ Len(files[ResultFile].data) = 1
        /\ Result.pre_verification_status
             \in (IF files[PreLog].exists THEN {Reproduced, UnexpectedPass}
                  ELSE {MissingLog})
        /\ Result.post_verification_status
             \in (IF files[PostLog].exists THEN {Fixed, FailedFix} ELSE {MissingLog})
        /\ (files[PreLog].exists /\ NoSummaryLine(files[PreLog].data) =>
              Result.details.pre = <<Stats(0, 0, FALSE)>>)
        /\ (files[PostLog].exists /\ NoSummaryLine(files[PostLog].data) =>
              Result.details.post = <<Stats(0, 0, FALSE)>>))

\* no agent log, a pre log without a summary line, no post log, and an
\* earlier result.json: the aggregator has replaced it
C16_Witness ==
  /\ MetricsWritten
  /\ ~files[AgentLog].exists
  /\ files[PreLog] = File(<<"x", NL, "x">>)
  /\ ~files[PostLog].exists
  /\ Result.agent_actions = 0
  /\ Result.pre_verification_status = UnexpectedPass
  /\ Result.post_verification_status = MissingLog
  /\ Result.details.pre = <<Stats(0, 0, FALSE)>>

\* the place of a position of main in the sequence INIT, SETUP, PRE_VERIFY,
\* AGENT_CALL (with the steps inside call_anthropic), PATCH_APPLY,
\* POST_VERIFY, DONE; 0 when no process of main is under way
PhaseOf(p) ==
  CASE p = "INIT" -> 1
    [] p = "SETUP" -> 2
    [] p = "PRE_VERIFY" -> 3
    [] p \in {"AGENT_CALL", "CALL_LOOP", "CALL_RET"} -> 4
    [] p = "PATCH_APPLY" -> 5
    [] p = "POST_VERIFY" -> 6
    [] p = "DONE" -> 7
    [] OTHER -> 0

InMain == entry = "main" /\ PhaseOf(pc) \in 1..6

\* C17 (Spec): a step of a running main process stays in its phase (only
\* inside AGENT_CALL, where call_anthropic takes several steps), goes to the
\* next phase of the sequence, or is a fatal exit from INIT, SETUP or
\* AGENT_CALL; it never goes back and never skips a phase.  So a request is
\* sent to a model only after the pre-verification run of the test command
\* has returned, patch handling starts only with a response in hand, and
\* the test command runs a second time only after patch handling.
C17_PhaseOrder ==
  /\ [][InMain =>
          \/ pc' = "EXIT" /\ PhaseOf(pc) \in {1, 2, 4}
          \/ pc' # "EXIT" /\ PhaseOf(pc') = PhaseOf(pc) /\ PhaseOf(pc) = 4
          \/ pc' # "EXIT" /\ PhaseOf(pc') = PhaseOf(pc) + 1]_vars
  /\ [](entry = "main" /\ attempts # <<>> => TestRuns >= 1 /\ Len(verify) >= 1)
  /\ [](entry = "main" /\ pc \in {"PATCH_APPLY", "POST_VERIFY", "DONE"} =>
          /\ agent_response.some
          /\ SomeSucceeded
          /\ TestRuns = (IF pc = "DONE" THEN 2 ELSE 1))
  /\ [](entry = "main" /\ (applied # <<>> \/ written \cap {PatchFile, RawFile} # {}) =>
          pc \in {"POST_VERIFY", "DONE", "METRICS"} /\ SomeSucceeded)
  /\ [](entry = "main" /\ TestRuns = 2 =>
          pc \in {"DONE", "METRICS"} /\ written \cap {PatchFile, RawFile} # {})

\* a run through all the phases: the second model answered with a diff,
\* both apply commands were run, the test command ran twice
C17_Witness ==
  /\ entry = "main"
  /\ pc = "DONE"
  /\ Len(attempts) = 2
  /\ SomeSucceeded
  /\ Len(applied) = 2
  /\ TestRuns = 2
  /\ Count(GitStatus) = 1

\* what a verification log holds after the n-th run of the test command by
\* this process: the one record of that run, or nothing at all when the
\* launch raised
FreshLog(n) ==
  IF verify[n].launched THEN File(LogRecord(config.test_command, verify[n]))
  ELSE Absent

\* C18 (Spec): in a main process that is past PRE_VERIFY,
\* pre_verification.log holds the record of this process's first run of the
\* test command and nothing else (it does not exist when that launch
\* raised), whatever earlier processes left in it; past POST_VERIFY the same
\* holds of post_verification.log and the second run; and both runs are of
\* the test command of task.yaml, in the working directory.
C18_FreshLogs ==
  /\ (entry = "main" /\ PhaseOf(pc) \in 4..7 =>
        /\ files[PreLog] = FreshLog(1)
        /\ Count(config.test_command) = (IF pc = "DONE" THEN 2 ELSE 1))
  /\ (entry = "main" /\ pc = "DONE" =>
        /\ files[PostLog] = FreshLog(2)
        /\ cmds_run[Len(cmds_run)] = Cmd(config.test_command, WorkDir))

\* the second process in the directory is done; the first one had sent
\* other logs to the model, so it had left another pre_verification.log
C18_Witness ==
  /\ entry = "main"
  /\ pc = "DONE"
  /\ runs = 2
  /\ Len(DataOf(files, PromptsLog)) = 2
  /\ files[PromptsLog].data[1].prompt # files[PromptsLog].data[2].prompt
  /\ files[PreLog] = File(LogRecord(config.test_command, Passes5))
  /\ files[PostLog] = File(LogRecord(config.test_command, Fails2Of5))

\* the setup commands this process has handed to run_command, in order: they
\* follow the two git commands
SetupRan ==
  [n \in 1..Len(setup_rets) |-> cmds_run[n + 2]]

\* the lines of setup.commands that are not blank and do not start, once
\* stripped, with "cd "
ToRun ==
  SelectSeq(SplitLines(config.setup),
            LAMBDA line : Strip(line) # <<>> /\ ~StartsWith(Strip(line), CdPrefix))

\* C19 (SpecOneRun): a main process that found the target directory goes
\* from SETUP to PRE_VERIFY whatever its setup commands return, and by then
\* it has run, in the target directory, one after the other and each once,
\* exactly the lines of setup.commands that are not blank and do not start,
\* once stripped, with "cd ": none is left out after a command that returned
\* a code other than 0 or failed to launch.
C19_SetupBestEffort ==
  /\ [][pc = "SETUP" /\ target => pc' = "PRE_VERIFY"]_vars
  /\ [](entry = "main" /\ PhaseOf(pc) \in 3..7 =>
          SetupRan = [n \in 1..Len(ToRun) |-> Cmd(ToRun[n], TargetDir)])

\* the first setup command returned 1, the launch of the second raised, and
\* both were run; the process went on to the end
C19_Witness ==
  /\ entry = "main"
  /\ pc = "DONE"
  /\ setup_rets = <<1, -1>>
  /\ SetupRan = <<Cmd(<<"pip install">>, TargetDir), Cmd(<<SP, "make", SP>>, TargetDir)>>

\* C20 (Spec): when the aggregator, run after any sequence of orchestrator
\* processes, writes resolved = true, the pre_verification.log and the
\* post_verification.log it read were written by one and the same process;
\* and a process that wrote a pre_verification.log and then exited at
\* AGENT_CALL leaves no post_verification.log of an earlier process in the
\* directory.
C20_SameRunLogs ==
  /\ (MetricsWritten /\ Result.resolved =>
        log_run.pre > 0 /\ log_run.pre = log_run.post)
  /\ (entry = "main" /\ pc = "EXIT" /\ PreLog \in written =>
        ~files[PostLog].exists)

====
